---- MODULE Spec2Model ----
(***************************************************************************)
(* Model of the page-selection parser, the single-file split handler and   *)
(* the batch handler of backend/main.py.                                   *)
(*                                                                         *)
(* A Python str is a sequence of one-character strings.  Fixed message     *)
(* texts produced by f-strings or by the interpreter are kept as single    *)
(* multi-character chunks inside such a sequence, so a message is the      *)
(* concatenation, in order, of its literal chunks and of the characters    *)
(* of the values formatted into it.                                        *)
(***************************************************************************)
EXTENDS Integers, Sequences, FiniteSets, TLC

\* ---------------------------------------------------------------- bounds
MaxLen == 4
MaxPages == 2
MaxFiles == 3

\* ------------------------------------------------------- str primitives
DigitChars == <<"0", "1", "2", "3", "4", "5", "6", "7", "8", "9">>

IsDigit(c) == \E i \in 1..10 : DigitChars[i] = c

DigitVal(c) == (CHOOSE i \in 1..10 : DigitChars[i] = c) - 1

IsSpace(c) == c \in {" ", "\t", "\n", "\r"}

UpperChars == <<"A", "B", "C", "D", "E", "F", "G", "H", "I", "J", "K", "L", "M",
                "N", "O", "P", "Q", "R", "S", "T", "U", "V", "W", "X", "Y", "Z">>

LowerChars == <<"a", "b", "c", "d", "e", "f", "g", "h", "i", "j", "k", "l", "m",
                "n", "o", "p", "q", "r", "s", "t", "u", "v", "w", "x", "y", "z">>

\* str.lower()
Lower(s) ==
    [i \in 1..Len(s) |->
        IF \E k \in 1..26 : UpperChars[k] = s[i]
        THEN LowerChars[CHOOSE k \in 1..26 : UpperChars[k] = s[i]]
        ELSE s[i]]

\* str.endswith(suffix)
EndsWith(s, suffix) ==
    /\ Len(s) >= Len(suffix)
    /\ SubSeq(s, Len(s) - Len(suffix) + 1, Len(s)) = suffix

\* c in s, for a one-character c
InStr(c, s) == \E i \in 1..Len(s) : s[i] = c

RECURSIVE LStrip(_)
LStrip(s) == IF s # <<>> /\ IsSpace(Head(s)) THEN LStrip(Tail(s)) ELSE s

RECURSIVE RStrip(_)
RStrip(s) ==
    IF s # <<>> /\ IsSpace(s[Len(s)]) THEN RStrip(SubSeq(s, 1, Len(s) - 1)) ELSE s

\* str.strip()
Strip(s) == RStrip(LStrip(s))

\* str.split(sep) for a one-character sep: always at least one piece
RECURSIVE SplitFrom(_, _, _)
SplitFrom(s, sep, cur) ==
    IF s = <<>> THEN <<cur>>
    ELSE IF Head(s) = sep THEN <<cur>> \o SplitFrom(Tail(s), sep, <<>>)
    ELSE SplitFrom(Tail(s), sep, Append(cur, Head(s)))

Split(s, sep) == SplitFrom(s, sep, <<>>)

\* sep.join(parts)
RECURSIVE Join(_, _)
Join(parts, sep) ==
    IF parts = <<>> THEN <<>>
    ELSE IF Len(parts) = 1 THEN parts[1]
    ELSE parts[1] \o <<sep>> \o Join(Tail(parts), sep)

\* str(n) for an integer n >= 0
RECURSIVE IntToStr(_)
IntToStr(n) ==
    IF n < 10 THEN <<DigitChars[n + 1]>>
    ELSE Append(IntToStr(n \div 10), DigitChars[(n % 10) + 1])

\* value of a run of decimal digits
RECURSIVE DigitsVal(_)
DigitsVal(s) ==
    IF s = <<>> THEN 0
    ELSE 10 * DigitsVal(SubSeq(s, 1, Len(s) - 1)) + DigitVal(s[Len(s)])

\* repr(s) of a str without quotes or escapes in it
Repr(s) == <<"'">> \o s \o <<"'">>

\* int(s): surrounding whitespace is ignored, the rest must be decimal digits
\* (the inputs carry no sign: a '-' never reaches int(), see ParsePart)
PyInt(s) ==
    LET t == Strip(s) IN
    IF t # <<>> /\ \A i \in 1..Len(t) : IsDigit(t[i])
    THEN [ok |-> TRUE, value |-> DigitsVal(t)]
    ELSE [ok |-> FALSE,
          msg |-> <<"invalid literal for int() with base 10: ">> \o Repr(s)]

\* list(range(a, b + 1))
PyRange(a, b) == IF b < a THEN <<>> ELSE [i \in 1..(b - a + 1) |-> a + i - 1]

\* sorted(list(set(xs)))
RECURSIVE SortedOf(_)
SortedOf(S) ==
    IF S = {} THEN <<>>
    ELSE LET m == CHOOSE x \in S : \A y \in S : x <= y
         IN <<m>> \o SortedOf(S \ {m})

SortedSet(xs) == SortedOf({xs[i] : i \in 1..Len(xs)})

\* ------------------------------------------------- parse_page_selection
\* start, end = map(int, part.split('-')): map is lazy, so the unpacking
\* converts piece 1, piece 2 and, when there is one, piece 3 before it
\* can tell that there are too many values.
UnpackInts(ps, i1, i2) ==
    IF ~i1.ok THEN i1
    ELSE IF Len(ps) < 2
    THEN [ok |-> FALSE, msg |-> <<"not enough values to unpack (expected 2, got 1)">>]
    ELSE IF ~i2.ok THEN i2
    ELSE IF Len(ps) > 2 /\ ~PyInt(ps[3]).ok THEN PyInt(ps[3])
    ELSE IF Len(ps) > 2
    THEN [ok |-> FALSE, msg |-> <<"too many values to unpack (expected 2)">>]
    ELSE [ok |-> TRUE, start |-> i1.value, end |-> i2.value]

UnpackPieces(ps) == UnpackInts(ps, PyInt(ps[1]), PyInt(ps[2]))

UnpackRange(part) == UnpackPieces(Split(part, "-"))

OutOfRangeMsg(start, end, max_pages) ==
    <<"Page range ">> \o IntToStr(start) \o <<"-">> \o IntToStr(end)
        \o <<" is out of range (1-">> \o IntToStr(max_pages) \o <<")">>

PageOutOfRangeMsg(page_num, max_pages) ==
    <<"Page ">> \o IntToStr(page_num)
        \o <<" is out of range (1-">> \o IntToStr(max_pages) \o <<")">>

\* the branch for a part with a hyphen, u the outcome of the unpacking
RangePart(u, max_pages) ==
    IF ~u.ok THEN u
    ELSE IF u.start < 1 \/ u.end > max_pages
    THEN [ok |-> FALSE, msg |-> OutOfRangeMsg(u.start, u.end, max_pages)]
    ELSE [ok |-> TRUE, value |-> PyRange(u.start, u.end)]

\* SinglePart with the upper bound forgotten
SinglePart_NoUpper(n, max_pages) ==
    IF ~n.ok THEN n
    ELSE IF n.value < 1
    THEN [ok |-> FALSE, msg |-> PageOutOfRangeMsg(n.value, max_pages)]
    ELSE [ok |-> TRUE, value |-> <<n.value>>]

\* the branch for a part without a hyphen, n the outcome of int(part)
SinglePart(n, max_pages) ==
    IF ~n.ok THEN n
    ELSE IF n.value < 1 \/ n.value > max_pages
    THEN [ok |-> FALSE, msg |-> PageOutOfRangeMsg(n.value, max_pages)]
    ELSE [ok |-> TRUE, value |-> <<n.value>>]

StrippedPart(part, max_pages) ==
    IF InStr("-", part)
    THEN RangePart(UnpackRange(part), max_pages)
    ELSE SinglePart(PyInt(part), max_pages)

\* The body of the for loop for one part: the pages it contributes, or
\* the ValueError it raises.
ParsePart(rawpart, max_pages) == StrippedPart(Strip(rawpart), max_pages)

\* The for loop: parts are handled left to right, the first ValueError ends it.
RECURSIVE ParseLoop(_, _, _)
RECURSIVE ParseLoopStep(_, _, _, _)
ParseLoopStep(r, rest, max_pages, page_numbers) ==
    IF ~r.ok THEN r ELSE ParseLoop(rest, max_pages, page_numbers \o r.value)

ParseLoop(parts, max_pages, page_numbers) ==
    IF parts = <<>> THEN [ok |-> TRUE, value |-> page_numbers]
    ELSE ParseLoopStep(ParsePart(Head(parts), max_pages), Tail(parts),
                       max_pages, page_numbers)

\* sorted(page_numbers), the set() forgotten
RECURSIVE InsertSorted(_, _)
InsertSorted(x, xs) ==
    IF xs = <<>> THEN <<x>>
    ELSE IF x <= Head(xs) THEN <<x>> \o xs
    ELSE <<Head(xs)>> \o InsertSorted(x, Tail(xs))

RECURSIVE SortedList(_)
SortedList(xs) ==
    IF xs = <<>> THEN <<>> ELSE InsertSorted(Head(xs), SortedList(Tail(xs)))

FinishSelection_NoSet(page_numbers) == SortedList(page_numbers)

\* list(dict.fromkeys(page_numbers)), the sorted() forgotten
RECURSIVE FirstOccurrences(_, _)
FirstOccurrences(xs, seen) ==
    IF xs = <<>> THEN <<>>
    ELSE IF Head(xs) \in seen THEN FirstOccurrences(Tail(xs), seen)
    ELSE <<Head(xs)>> \o FirstOccurrences(Tail(xs), seen \cup {Head(xs)})

FinishSelection_NoSort(page_numbers) == FirstOccurrences(page_numbers, {})

FinishSelection(page_numbers) == SortedSet(page_numbers)

\* the return statement, r the outcome of the loop
ReturnSelection(r) ==
    IF r.ok THEN [ok |-> TRUE, value |-> FinishSelection(r.value)] ELSE r

parse_page_selection(pages_str, max_pages) ==
    ReturnSelection(ParseLoop(Split(pages_str, ","), max_pages, <<>>))

\* --------------------------------------------------------- PDF codec
\* A document is [name, readable, extractable, pages]: readable is whether
\* PdfReader(...) and len(pdf_reader.pages) succeed, extractable whether
\* add_page/write succeed, pages the page objects (each one its own text).
PageOf(tag, i) == <<tag>> \o IntToStr(i)

PagesOf(tag, n) == [i \in 1..n |-> PageOf(tag, i)]

ReadErrorMsg == <<"EOF marker not found">>

WriteErrorMsg == <<"codec failure while copying a page">>

\* pdf_reader.pages[k]: a Python sequence index, negative k counts from the end
PagesIndex(doc_pages, k) ==
    LET n == Len(doc_pages) IN
    IF 0 <= k /\ k < n THEN [ok |-> TRUE, page |-> doc_pages[k + 1]]
    ELSE IF -n <= k /\ k < 0 THEN [ok |-> TRUE, page |-> doc_pages[n + k + 1]]
    ELSE [ok |-> FALSE, msg |-> <<"sequence index out of range">>]

\* the 1-based page number used as the index
LookupPage_OffByOne(doc_pages, page_num) == PagesIndex(doc_pages, page_num)

LookupPage(doc_pages, page_num) == PagesIndex(doc_pages, page_num - 1)

\* for page_num in page_numbers: pdf_writer.add_page(pdf_reader.pages[page_num - 1])
RECURSIVE ExtractLoop(_, _, _)
RECURSIVE ExtractLoopStep(_, _, _, _)
ExtractLoopStep(p, doc_pages, rest, written) ==
    IF ~p.ok THEN p ELSE ExtractLoop(doc_pages, rest, Append(written, p.page))

ExtractLoop(doc_pages, page_numbers, written) ==
    IF page_numbers = <<>> THEN [ok |-> TRUE, pages |-> written]
    ELSE ExtractLoopStep(LookupPage(doc_pages, Head(page_numbers)), doc_pages,
                         Tail(page_numbers), written)

\* extracted_text += f"=== Page {page_num} ===\n{page.extract_text()}\n\n"
RECURSIVE TextLoop(_, _)
TextLoop(doc_pages, page_numbers) ==
    IF page_numbers = <<>> THEN <<>>
    ELSE <<"=== Page ">> \o IntToStr(Head(page_numbers)) \o <<" ===\n">>
             \o LookupPage(doc_pages, Head(page_numbers)).page \o <<"\n\n">>
             \o TextLoop(doc_pages, Tail(page_numbers))

\* extracted_text.strip(): page texts carry no whitespace of their own, so
\* only the final "\n\n" chunk goes
StripText(text) ==
    IF text # <<>> /\ text[Len(text)] = "\n\n" THEN SubSeq(text, 1, Len(text) - 1)
    ELSE text

\* ----------------------------------------------------------------- state
VARIABLES
    pages_str,        \* the pages argument of the request
    max_pages,        \* page count handed to parse_page_selection / of the split document
    parse_out,        \* outcome of parse_page_selection(pages_str, max_pages)
    other_str,        \* a rearrangement of the parts of pages_str
    other_out,        \* outcome of parse_page_selection(other_str, max_pages)
    split_out,        \* response of /split
    files,            \* the files argument of /batch-process
    pc,               \* position of the batch handler
    idx,              \* number of files the for loop has handled
    processed_files,
    errors,
    zip_entries,      \* entries written to the ZipFile, in order
    content_read,     \* indices of the files whose content was read
    uploads,          \* names of the files present in UPLOAD_DIR
    batch_out         \* response of /batch-process

vars == <<pages_str, max_pages, parse_out, other_str, other_out, split_out,
          files, pc, idx, processed_files, errors, zip_entries, content_read,
          uploads, batch_out>>

parseVars == <<pages_str, max_pages, parse_out, other_str, other_out, split_out>>

batchVars == <<files, pc, idx, processed_files, errors, zip_entries,
               content_read, batch_out>>

NoCall == [called |-> FALSE]

Called(r) == [called |-> TRUE, out |-> r]

\* ---------------------------------------------------------------- inputs
Alphabet == {"0", "1", "2", "3", "-", ",", " ", "a"}

StrsUpTo(n) == UNION {[1..k -> Alphabet] : k \in 0..n}

ExampleInputs ==
    { [pages_str |-> <<"2", ",", "1", ",", "2">>, max_pages |-> 5],
      [pages_str |-> <<"1", "-", "3", ",", "5">>, max_pages |-> 5],
      [pages_str |-> <<"5", ",", "1", "-", "3">>, max_pages |-> 5],
      [pages_str |-> <<"7">>, max_pages |-> 5],
      [pages_str |-> <<"1", ",", "2", "-", "9">>, max_pages |-> 5],
      [pages_str |-> <<"a", "b", "c">>, max_pages |-> 5],
      [pages_str |-> <<"1", "-", "2", "-", "3">>, max_pages |-> 5],
      [pages_str |-> <<"1", "-", "2", "-", "a">>, max_pages |-> 5],
      [pages_str |-> <<"2", "-", "3", ",", "1", "-", "2">>, max_pages |-> 5],
      [pages_str |-> <<"1", "0", "-", "1", "2">>, max_pages |-> 12] }

ParseInputs ==
    [pages_str : StrsUpTo(MaxLen), max_pages : 0..MaxPages] \cup ExampleInputs

\* Documents of a batch.  The .txt name comes with two contents only (its
\* content is never looked at), the upper-case name with the two that
\* extract and the two-dot name with one.
PdfNames == { <<"a", ".", "p", "d", "f">> }

UpperNames == { <<"a", ".", "P", "D", "F">> }

DottedNames == { <<"c", ".", "b", ".", "p", "d", "f">> }

OtherNames == { <<"b", ".", "t", "x", "t">> }

Contents ==
    { [readable |-> FALSE, extractable |-> FALSE, pages |-> <<>>],
      [readable |-> TRUE, extractable |-> TRUE, pages |-> PagesOf("p", 1)],
      [readable |-> TRUE, extractable |-> TRUE, pages |-> PagesOf("q", 2)],
      [readable |-> TRUE, extractable |-> FALSE, pages |-> PagesOf("r", 2)] }

Doc(name, c) ==
    [name |-> name, readable |-> c.readable, extractable |-> c.extractable,
     pages |-> c.pages]

Docs ==
    {Doc(n, c) : n \in PdfNames, c \in Contents}
        \cup {Doc(n, c) : n \in UpperNames, c \in {c \in Contents : c.extractable}}
        \cup {Doc(n, c) : n \in DottedNames, c \in {c \in Contents : Len(c.pages) = 2 /\ c.extractable}}
        \cup {Doc(n, c) : n \in OtherNames, c \in {c \in Contents : c.readable = c.extractable}}

BatchExprs ==
    { <<"1">>, <<"2", ",", "1">>, <<"2", "-", "1">> }

BatchInputs == UNION {[1..k -> Docs] : k \in 0..MaxFiles}

\* ------------------------------------------------------------ os.path
\* os.path.splitext(p)[0]: cut at the last dot, unless only dots precede it
\* in the last path component
RECURSIVE RFind(_, _)
RFind(s, c) ==
    IF s = <<>> THEN 0
    ELSE IF s[Len(s)] = c THEN Len(s)
    ELSE RFind(SubSeq(s, 1, Len(s) - 1), c)

SplitextRoot(p) ==
    LET sepIndex == RFind(p, "/")
        dotIndex == RFind(p, ".")
    IN  IF dotIndex > sepIndex
           /\ \E k \in (sepIndex + 1)..(dotIndex - 1) : p[k] # "."
        THEN SubSeq(p, 1, dotIndex - 1)
        ELSE p

OutputFilename(filename) ==
    <<"extracted_">> \o SplitextRoot(filename) \o <<".pdf">>

IsPdfName(filename) == EndsWith(Lower(filename), <<".", "p", "d", "f">>)

\* ------------------------------------------------------------- /split
SplitPath == <<"uuid", "_split.pdf">>

\* The body of split_pdf for a document of max_pages pages; the file_size
\* field (a byte count of the codec's output) is left out.
\* lines 143-171, ex the outcome of the page loop
SplitExtracted(pages, doc, page_numbers, ex) ==
    IF ~ex.ok
    THEN [status |-> 500, detail |-> <<"Error splitting PDF: ">> \o ex.msg]
    ELSE IF ~doc.extractable
    THEN [status |-> 500, detail |-> <<"Error splitting PDF: ">> \o WriteErrorMsg]
    ELSE [status |-> 200,
          message |-> <<"Extracted pages ">> \o pages \o <<" successfully">>,
          download_url |-> <<"/download/">> \o SplitPath,
          total_pages |-> Len(doc.pages),
          page_numbers |-> page_numbers,
          output |-> ex.pages,
          extracted_text |-> StripText(TextLoop(doc.pages, page_numbers))]

\* lines 138-176, sel the outcome of parse_page_selection
SplitSelected(pages, doc, sel) ==
    IF ~sel.ok THEN [status |-> 400, detail |-> sel.msg]
    ELSE SplitExtracted(pages, doc, sel.value, ExtractLoop(doc.pages, sel.value, <<>>))

SplitResponse(pages, doc) ==
    IF ~doc.readable
    THEN [status |-> 500, detail |-> <<"Error splitting PDF: ">> \o ReadErrorMsg]
    ELSE SplitSelected(pages, doc, parse_page_selection(pages, Len(doc.pages)))

\* lines 157-162: the output file is written when the response is a success
SplitUploads(r, old) ==
    IF r.status = 200 THEN old \cup {[name |-> SplitPath, content |-> r.output]}
    ELSE old

\* --------------------------------------------------------------- actions
ParseCall ==
    /\ ~parse_out.called
    /\ parse_out' = Called(parse_page_selection(pages_str, max_pages))
    /\ UNCHANGED <<pages_str, max_pages, other_str, other_out, split_out,
                   uploads>>
    /\ UNCHANGED batchVars

\* A second call on the same parts in another order, one of them possibly
\* repeated.
Rearranged(parts, perm, dup) ==
    [i \in 1..Len(parts) |-> parts[perm[i]]]
        \o (IF dup = 0 THEN <<>> ELSE <<parts[dup]>>)

ParseOther(s) ==
    /\ other_str' = s
    /\ other_out' = Called(parse_page_selection(s, max_pages))

RearrangeParts(parts) ==
    \E perm \in Permutations(1..Len(parts)), dup \in 0..Len(parts) :
        ParseOther(Join(Rearranged(parts, perm, dup), ","))

ParseRearranged ==
    /\ parse_out.called
    /\ parse_out.out.ok
    /\ ~other_out.called
    /\ RearrangeParts(Split(pages_str, ","))
    /\ UNCHANGED <<pages_str, max_pages, parse_out, split_out, uploads>>
    /\ UNCHANGED batchVars

SplitDone(r) ==
    /\ split_out' = Called(r)
    /\ uploads' = SplitUploads(r, uploads)

SplitCall ==
    /\ ~split_out.called
    /\ \E readable \in BOOLEAN, extractable \in BOOLEAN :
          SplitDone(SplitResponse(pages_str,
                        [name |-> <<"in.pdf">>, readable |-> readable,
                         extractable |-> extractable,
                         pages |-> PagesOf("p", max_pages)]))
    /\ UNCHANGED <<pages_str, max_pages, parse_out, other_str, other_out>>
    /\ UNCHANGED batchVars

\* /batch-process
ZipPath == <<"batch_", "uuid", ".zip">>

ZipFileOf(entries) == [name |-> ZipPath, content |-> entries]

\* lines 179-190: the empty-upload check, then ZipFile(zip_path, 'w')
BatchStart ==
    /\ pc = "start"
    /\ IF files = <<>>
       THEN /\ batch_out' = Called([status |-> 400, detail |-> <<"No files uploaded">>])
            /\ pc' = "done"
            /\ UNCHANGED uploads
       ELSE /\ uploads' = uploads \cup {ZipFileOf(<<>>)}
            /\ pc' = "loop"
            /\ UNCHANGED batch_out
    /\ UNCHANGED <<files, idx, processed_files, errors, zip_entries, content_read>>
    /\ UNCHANGED parseVars

FileError(prefix, name, msg) ==
    [read |-> TRUE, added |-> <<>>,
     error |-> <<(<<prefix>> \o name \o <<": ">> \o msg)>>]

\* lines 208-218, ex the outcome of the page loop
FileExtracted(file, ex) ==
    IF ~ex.ok THEN FileError("Error processing ", file.name, ex.msg)
    ELSE IF ~file.extractable
    THEN FileError("Error processing ", file.name, WriteErrorMsg)
    ELSE [read |-> TRUE, error |-> <<>>,
          added |-> <<[name |-> OutputFilename(file.name), content |-> ex.pages]>>]

\* FileSelected without the inner try: the ValueError of the selection
\* reaches the outer handler
FileSelected_NoInnerTry(file, sel) ==
    IF ~sel.ok THEN FileError("Error processing ", file.name, sel.msg)
    ELSE FileExtracted(file, ExtractLoop(file.pages, sel.value, <<>>))

\* lines 202-218, sel the outcome of parse_page_selection
FileSelected(file, sel) ==
    IF ~sel.ok THEN FileError("Skipped ", file.name, sel.msg)
    ELSE FileExtracted(file, ExtractLoop(file.pages, sel.value, <<>>))

\* One iteration of the for loop: what it appends to errors, what it writes
\* to the archive, and whether it read the content.
FileStep(file, pages) ==
    IF ~IsPdfName(file.name)
    THEN [read |-> FALSE, added |-> <<>>,
          error |-> <<(<<"Skipped ">> \o file.name \o <<": ", "Not a PDF file">>)>>]
    ELSE IF ~file.readable
    THEN FileError("Error processing ", file.name, ReadErrorMsg)
    ELSE FileSelected(file, parse_page_selection(pages, Len(file.pages)))

\* an archive that keeps one entry per name
WriteStr_Overwrite(entries, added) ==
    SelectSeq(entries, LAMBDA e : \A i \in 1..Len(added) : added[i].name # e.name)
        \o added

\* zipf.writestr(name, data): a further entry, also under a name already there
WriteStr(entries, added) == entries \o added

\* RecordStep with processed_files += 1 moved out of the success path
RecordStep_AlwaysCount(step) ==
    /\ errors' = errors \o step.error
    /\ zip_entries' = WriteStr(zip_entries, step.added)
    /\ processed_files' = processed_files + 1
    /\ content_read' = IF step.read THEN content_read \cup {idx + 1} ELSE content_read

\* the effect of one iteration on the loop's variables
RecordStep(step) ==
    /\ errors' = errors \o step.error
    /\ zip_entries' = WriteStr(zip_entries, step.added)
    /\ processed_files' = processed_files + Len(step.added)
    /\ content_read' = IF step.read THEN content_read \cup {idx + 1} ELSE content_read

\* ProcessFile without the per-file try: the first failure ends the loop
ProcessFile_AbortOnError ==
    /\ pc = "loop"
    /\ idx < Len(files)
    /\ RecordStep(FileStep(files[idx + 1], pages_str))
    /\ idx' = IF Len(errors') = Len(errors) THEN idx + 1 ELSE Len(files)
    /\ UNCHANGED <<files, pc, uploads, batch_out>>
    /\ UNCHANGED parseVars

ProcessFile ==
    /\ pc = "loop"
    /\ idx < Len(files)
    /\ RecordStep(FileStep(files[idx + 1], pages_str))
    /\ idx' = idx + 1
    /\ UNCHANGED <<files, pc, uploads, batch_out>>
    /\ UNCHANGED parseVars

\* BatchFinish without os.remove(zip_path)
BatchFinish_NoRemove ==
    /\ pc = "loop"
    /\ idx = Len(files)
    /\ pc' = "done"
    /\ uploads' = (uploads \ {ZipFileOf(<<>>)}) \cup {ZipFileOf(zip_entries)}
    /\ IF processed_files = 0
       THEN batch_out' = Called([status |-> 400,
                                 detail |-> <<"No files were processed successfully">>])
       ELSE batch_out' = Called([status |-> 200,
                   message |-> <<"Processed ">> \o IntToStr(processed_files) \o <<" files">>,
                   download_url |-> <<"/download/">> \o ZipPath,
                   processed_files |-> processed_files,
                   total_files |-> Len(files),
                   errors |-> errors])
    /\ UNCHANGED <<files, idx, processed_files, errors, zip_entries, content_read>>
    /\ UNCHANGED parseVars

\* lines 222-234: the archive is closed, then removed if nothing was processed
BatchFinish ==
    /\ pc = "loop"
    /\ idx = Len(files)
    /\ pc' = "done"
    /\ IF processed_files = 0
       THEN /\ uploads' = uploads \ {ZipFileOf(<<>>)}
            /\ batch_out' = Called([status |-> 400,
                                    detail |-> <<"No files were processed successfully">>])
       ELSE /\ uploads' = (uploads \ {ZipFileOf(<<>>)}) \cup {ZipFileOf(zip_entries)}
            /\ batch_out' = Called([status |-> 200,
                   message |-> <<"Processed ">> \o IntToStr(processed_files) \o <<" files">>,
                   download_url |-> <<"/download/">> \o ZipPath,
                   processed_files |-> processed_files,
                   total_files |-> Len(files),
                   errors |-> errors])
    /\ UNCHANGED <<files, idx, processed_files, errors, zip_entries, content_read>>
    /\ UNCHANGED parseVars

\* -------------------------------------------------------- specifications
BatchIdle ==
    /\ files = <<>>
    /\ pc = "idle"
    /\ idx = 0
    /\ processed_files = 0
    /\ errors = <<>>
    /\ zip_entries = <<>>
    /\ content_read = {}
    /\ batch_out = NoCall

ParseIdle ==
    /\ max_pages = 0
    /\ parse_out = NoCall
    /\ other_str = <<>>
    /\ other_out = NoCall
    /\ split_out = NoCall

\* parse_page_selection and /split on one request
Init ==
    /\ \E in \in ParseInputs :
          /\ pages_str = in.pages_str
          /\ max_pages = in.max_pages
    /\ parse_out = NoCall
    /\ other_str = <<>>
    /\ other_out = NoCall
    /\ split_out = NoCall
    /\ uploads = {}
    /\ BatchIdle

Next == ParseCall \/ ParseRearranged \/ SplitCall

Spec == Init /\ [][Next]_vars

\* /batch-process on one request
InitBatch ==
    /\ pages_str \in BatchExprs
    /\ files \in BatchInputs
    /\ pc = "start"
    /\ idx = 0
    /\ processed_files = 0
    /\ errors = <<>>
    /\ zip_entries = <<>>
    /\ content_read = {}
    /\ batch_out = NoCall
    /\ uploads = {}
    /\ ParseIdle

NextBatch == BatchStart \/ ProcessFile \/ BatchFinish

SpecBatch == InitBatch /\ [][NextBatch]_vars

\* ------------------------------------------------ vocabulary of the claims
\* sub occurs in s as a contiguous run
Contains(s, sub) ==
    \E i \in 0..(Len(s) - Len(sub)) : SubSeq(s, i + 1, i + Len(sub)) = sub

StrictlyIncreasing(xs) == \A i \in 1..(Len(xs) - 1) : xs[i] < xs[i + 1]

\* the comma-separated tokens of an expression, each stripped
Tokens(e) == LET ps == Split(e, ",") IN [i \in 1..Len(ps) |-> Strip(ps[i])]

IsNumber(t) == t # <<>> /\ \A i \in 1..Len(t) : IsDigit(t[i])

Hyphens(t) == {i \in 1..Len(t) : t[i] = "-"}

RangeStart(t) == Strip(SubSeq(t, 1, (CHOOSE i \in Hyphens(t) : TRUE) - 1))

RangeEnd(t) == Strip(SubSeq(t, (CHOOSE i \in Hyphens(t) : TRUE) + 1, Len(t)))

\* start-end: exactly one hyphen between two integers
IsRange(t) ==
    /\ Cardinality(Hyphens(t)) = 1
    /\ IsNumber(RangeStart(t))
    /\ IsNumber(RangeEnd(t))

\* empty, non-numeric, or a malformed range
Malformed(t) == ~IsNumber(t) /\ ~IsRange(t)

OutOfRange(t, n) ==
    \/ IsNumber(t) /\ (DigitsVal(t) < 1 \/ DigitsVal(t) > n)
    \/ IsRange(t) /\ (DigitsVal(RangeStart(t)) < 1 \/ DigitsVal(RangeEnd(t)) > n)

Rejected(t, n) == Malformed(t) \/ OutOfRange(t, n)

\* the value or the range of an out-of-range token, as the message prints it
Mention(t) ==
    IF IsNumber(t) THEN IntToStr(DigitsVal(t))
    ELSE IntToStr(DigitsVal(RangeStart(t))) \o <<"-">> \o IntToStr(DigitsVal(RangeEnd(t)))

\* the first token the parser cannot accept
FirstRejected(toks, n) ==
    CHOOSE i \in 1..Len(toks) :
        /\ Rejected(toks[i], n)
        /\ \A j \in 1..(i - 1) : ~Rejected(toks[j], n)

\* ---------------------------------------------------------------- claims
\* C1: whenever parse_page_selection returns a list, the list is strictly
\* increasing and each of its elements lies in 1..total_pages.
C1_SelectionSortedInRange ==
    \A o \in {parse_out, other_out} :
        (o.called /\ o.out.ok) =>
            /\ StrictlyIncreasing(o.out.value)
            /\ \A i \in 1..Len(o.out.value) :
                  1 <= o.out.value[i] /\ o.out.value[i] <= max_pages

C1_Witness ==
    /\ parse_out.called
    /\ parse_out.out.ok
    /\ Len(parse_out.out.value) >= 2
    /\ Len(Tokens(pages_str)) >= 2

\* C4: an expression with an out-of-range token (an integer below 1 or above
\* total_pages, a range whose start is below 1 or whose end is above
\* total_pages) makes parse_page_selection fail, no list is returned, and
\* when that token is the one the parser stops at, the message carries its
\* value or its range.
C4_OutOfRangeFails ==
    LET toks == Tokens(pages_str) IN
    (parse_out.called /\ \E i \in 1..Len(toks) : OutOfRange(toks[i], max_pages)) =>
        /\ ~parse_out.out.ok
        /\ LET t == toks[FirstRejected(toks, max_pages)] IN
           OutOfRange(t, max_pages) => Contains(parse_out.out.msg, Mention(t))

C4_Witness ==
    /\ parse_out.called
    /\ ~parse_out.out.ok
    /\ Len(Tokens(pages_str)) >= 2
    /\ ~Rejected(Tokens(pages_str)[1], max_pages)
    /\ OutOfRange(Tokens(pages_str)[2], max_pages)
    /\ IsRange(Tokens(pages_str)[2])

\* C5: for a document of zero pages parse_page_selection fails on every
\* expression, ranges that end at 0 or run backwards included.
C5_ZeroPagesAlwaysFails ==
    (parse_out.called /\ max_pages = 0) => ~parse_out.out.ok

\* C6: an expression with an empty, non-numeric or malformed token makes
\* parse_page_selection fail, and when that token is the one the parser
\* stops at, the message names it.
C6_MalformedNamed ==
    LET toks == Tokens(pages_str) IN
    (parse_out.called /\ \E i \in 1..Len(toks) : Malformed(toks[i])) =>
        /\ ~parse_out.out.ok
        /\ LET t == toks[FirstRejected(toks, max_pages)] IN
           Malformed(t) => Contains(parse_out.out.msg, Repr(t))

\* C8: parsing the parts of a valid expression in another order, with or
\* without one of them repeated, returns the same list; "2,1,2" of 5 gives
\* [1, 2] and "1-3,5" of 5 gives [1, 2, 3, 5].
C8_OrderAndRepetitionIrrelevant ==
    /\ other_out.called =>
          /\ other_out.out.ok
          /\ other_out.out.value = parse_out.out.value
    /\ (parse_out.called /\ max_pages = 5) =>
          /\ pages_str = <<"2", ",", "1", ",", "2">> => parse_out.out = [ok |-> TRUE, value |-> <<1, 2>>]
          /\ pages_str = <<"1", "-", "3", ",", "5">> => parse_out.out = [ok |-> TRUE, value |-> <<1, 2, 3, 5>>]

C8_Witness ==
    /\ other_out.called
    /\ other_str # pages_str
    /\ Len(Split(other_str, ",")) > Len(Split(pages_str, ","))
    /\ Split(other_str, ",")[1] # Split(pages_str, ",")[1]
    /\ Len(other_out.out.value) >= 2

\* C9: /split on a document of N pages never fails on a page lookup, and
\* its output holds exactly the selected pages, once each, in ascending
\* page order; the selection 1-N gives back all N pages in order.
C9_ExtractExactlySelection ==
    split_out.called =>
        LET r == split_out.out IN
        /\ r.status = 500 =>
              ~Contains(r.detail, <<"sequence index out of range">>)
        /\ r.status = 200 =>
              /\ StrictlyIncreasing(r.page_numbers)
              /\ Len(r.output) = Len(r.page_numbers)
              /\ \A i \in 1..Len(r.output) :
                    r.output[i] = PageOf("p", r.page_numbers[i])
              /\ [name |-> SplitPath, content |-> r.output] \in uploads
              /\ (parse_out.called /\ parse_out.out.ok) =>
                    r.page_numbers = parse_out.out.value
              /\ pages_str = <<"1", "-">> \o IntToStr(max_pages) =>
                    r.output = PagesOf("p", max_pages)

C9_Witness ==
    /\ split_out.called
    /\ split_out.out.status = 200
    /\ max_pages >= 2
    /\ pages_str = <<"1", "-">> \o IntToStr(max_pages)
    /\ Len(split_out.out.output) = max_pages

\* ---------------------------------------------- vocabulary of the batch
\* the name ends, whatever the case, in .pdf
HasPdfExtension(name) ==
    /\ Len(name) >= 4
    /\ Lower(SubSeq(name, Len(name) - 3, Len(name))) = <<".", "p", "d", "f">>

SelectionFor(doc) == parse_page_selection(pages_str, Len(doc.pages))

\* a document that passes the name check, the read, the selection and the
\* extraction
Succeeds(doc) ==
    /\ HasPdfExtension(doc.name)
    /\ doc.readable
    /\ SelectionFor(doc).ok
    /\ doc.extractable

\* the positions, in submission order, of the first n documents that
\* succeed, and of those that do not
SucceededUpTo(n) == SortedOf({k \in 1..n : Succeeds(files[k])})

RejectedUpTo(n) == SortedOf({k \in 1..n : ~Succeeds(files[k])})

\* the error string a document gets
ErrorOf(doc) ==
    IF ~HasPdfExtension(doc.name)
    THEN <<"Skipped ">> \o doc.name \o <<": ", "Not a PDF file">>
    ELSE IF ~doc.readable
    THEN <<"Error processing ">> \o doc.name \o <<": ">> \o ReadErrorMsg
    ELSE IF ~SelectionFor(doc).ok
    THEN <<"Skipped ">> \o doc.name \o <<": ">> \o SelectionFor(doc).msg
    ELSE <<"Error processing ">> \o doc.name \o <<": ">> \o WriteErrorMsg

ArchiveOnDisk == {f \in uploads : f.name = ZipPath}

\* C2: the documents of a batch are handled in submission order, each with
\* the outcome it has on its own whatever happened to the others, and the
\* error strings come in the order of the documents that caused them; three
\* documents of which one has a non-.pdf name and two succeed give
\* processed_files = 2, total_files = 3 and the one error "Not a PDF file"
\* with that document's name.
C2_SubmissionOrderIsolation ==
    /\ pc \in {"loop", "done"} =>
          LET bad == RejectedUpTo(idx) IN
          /\ processed_files = Len(SucceededUpTo(idx))
          /\ Len(errors) = Len(bad)
          /\ \A j \in 1..Len(bad) :
                /\ errors[j] = ErrorOf(files[bad[j]])
                /\ Contains(errors[j], files[bad[j]].name)
    /\ (pc = "done" /\ files # <<>>) => idx = Len(files)
    /\ (pc = "done" /\ Len(files) = 3) =>
          \A k \in 1..3 :
             (/\ ~HasPdfExtension(files[k].name)
              /\ \A m \in (1..3) \ {k} : Succeeds(files[m])) =>
                /\ batch_out.out.status = 200
                /\ batch_out.out.processed_files = 2
                /\ batch_out.out.total_files = 3
                /\ Len(batch_out.out.errors) = 1
                /\ Contains(batch_out.out.errors[1], <<"Not a PDF file">>)
                /\ Contains(batch_out.out.errors[1], files[k].name)

C2_Witness ==
    /\ pc = "done"
    /\ Len(files) = 3
    /\ ~files[1].readable
    /\ ~HasPdfExtension(files[2].name)
    /\ Succeeds(files[3])
    /\ Len(batch_out.out.errors) = 2
    /\ batch_out.out.processed_files = 1

\* C3: a batch in which no document succeeds ends in the 400 "No files were
\* processed successfully" failure and leaves no archive file behind; a
\* batch with a success returns a report and its archive file exists.
C3_NoDocumentsProcessed ==
    (pc = "done" /\ files # <<>>) =>
        IF \A k \in 1..Len(files) : ~Succeeds(files[k])
        THEN /\ batch_out.out =
                   [status |-> 400, detail |-> <<"No files were processed successfully">>]
             /\ ArchiveOnDisk = {}
        ELSE /\ batch_out.out.status = 200
             /\ batch_out.out.processed_files >= 1
             /\ ArchiveOnDisk # {}

C3_Witness ==
    /\ pc = "done"
    /\ Len(files) >= 2
    /\ \A k \in 1..Len(files) :
          /\ HasPdfExtension(files[k].name)
          /\ files[k].readable
          /\ ~SelectionFor(files[k]).ok
    /\ batch_out.out.status = 400
    /\ ArchiveOnDisk = {}

\* C7: the archive of a successful batch holds exactly processed_files
\* entries, the j-th being the extraction of the j-th successful document
\* under extracted_<stem>.pdf, also when two names share a stem.
C7_ArchiveOnePerSuccess ==
    (pc = "done" /\ batch_out.out.status = 200) =>
        /\ Cardinality(ArchiveOnDisk) = 1
        /\ \A f \in ArchiveOnDisk :
              LET good == SucceededUpTo(Len(files)) IN
              /\ Len(f.content) = batch_out.out.processed_files
              /\ Len(f.content) = Len(good)
              /\ \A j \in 1..Len(good) :
                    LET doc == files[good[j]]
                        sel == SelectionFor(doc).value
                        stem == SubSeq(doc.name, 1, Len(doc.name) - 4)
                    IN  /\ f.content[j].name = <<"extracted_">> \o stem \o <<".pdf">>
                        /\ f.content[j].content = [i \in 1..Len(sel) |-> doc.pages[sel[i]]]

C7_Witness ==
    /\ pc = "done"
    /\ batch_out.out.status = 200
    /\ batch_out.out.processed_files = 2
    /\ Len(files) = 3
    /\ ~Succeeds(files[2])
    /\ \E f \in ArchiveOnDisk :
          /\ Len(f.content) = 2
          /\ f.content[1].name = f.content[2].name
          /\ f.content[1].content # f.content[2].content

\* C10: a document is classified by the first of name check, read,
\* selection and extraction that rejects it: "Skipped <name>: Not a PDF
\* file" with the content left unread, "Error processing <name>: <message>"
\* for a read failure, "Skipped <name>: <message>" for a selection failure,
\* "Error processing <name>: <message>" for an extraction failure; each
\* time the archive and processed_files stay as they are and the loop goes
\* on to the next document.
C10_StepClassifies(doc) ==
    ~Succeeds(doc) =>
        /\ zip_entries' = zip_entries
        /\ processed_files' = processed_files
        /\ pc' = "loop"
        /\ Len(errors') = Len(errors) + 1
        /\ SubSeq(errors', 1, Len(errors)) = errors
        /\ LET e == errors'[Len(errors')] IN
           IF ~HasPdfExtension(doc.name)
           THEN /\ e = <<"Skipped ">> \o doc.name \o <<": ", "Not a PDF file">>
                /\ content_read' = content_read
           ELSE IF ~doc.readable
           THEN e = <<"Error processing ">> \o doc.name \o <<": ">> \o ReadErrorMsg
           ELSE IF ~SelectionFor(doc).ok
           THEN e = <<"Skipped ">> \o doc.name \o <<": ">> \o SelectionFor(doc).msg
           ELSE e = <<"Error processing ">> \o doc.name \o <<": ">> \o WriteErrorMsg

C10_FirstRejectingStep ==
    [][(pc = "loop" /\ idx' = idx + 1) => C10_StepClassifies(files[idx + 1])]_vars

C10_Witness ==
    /\ pc = "loop"
    /\ idx = 3
    /\ ~HasPdfExtension(files[1].name)
    /\ ~files[1].readable
    /\ files[2].readable /\ ~SelectionFor(files[2]).ok
    /\ SelectionFor(files[3]).ok /\ ~files[3].extractable
    /\ Len(errors) = 3
    /\ content_read = {2, 3}
    /\ processed_files = 0

\* C11: after k documents processed_files + len(errors) = k, each document
\* adding either one archive entry and one to processed_files or one error
\* string, never both and never neither; a returned report has
\* processed_files + len(errors) = total_files and
\* 1 <= processed_files <= total_files.
C11_Count ==
    /\ pc \in {"loop", "done"} =>
          /\ processed_files + Len(errors) = idx
          /\ Len(zip_entries) = processed_files
    /\ (pc = "done" /\ batch_out.out.status = 200) =>
          /\ batch_out.out.processed_files + Len(batch_out.out.errors)
                = batch_out.out.total_files
          /\ batch_out.out.total_files = Len(files)
          /\ 1 <= batch_out.out.processed_files
          /\ batch_out.out.processed_files <= batch_out.out.total_files

C11_Step ==
    idx' = idx + 1 =>
        \/ /\ processed_files' = processed_files + 1
           /\ Len(zip_entries') = Len(zip_entries) + 1
           /\ errors' = errors
        \/ /\ processed_files' = processed_files
           /\ zip_entries' = zip_entries
           /\ Len(errors') = Len(errors) + 1

C11_OneOutcomePerDocument == []C11_Count /\ [][C11_Step]_vars

C11_Witness ==
    /\ pc = "done"
    /\ Len(files) = 3
    /\ Succeeds(files[1])
    /\ files[2].readable /\ ~SelectionFor(files[2]).ok
    /\ SelectionFor(files[3]).ok /\ ~files[3].extractable
    /\ batch_out.out.status = 200
    /\ batch_out.out.processed_files = 1
    /\ Len(batch_out.out.errors) = 2

====
